---- MODULE Spec2Model ----
(***************************************************************************)
(* Repository pattern example: InMemoryUserRepository (a Map<string, User>  *)
(* plus a nextId counter) and the UserService wrapper built on top of it.  *)
(*                                                                         *)
(* The Map is modelled as a sequence of [key, val] entries in insertion    *)
(* order, which is the iteration order of a JavaScript Map.  Identifiers   *)
(* are the decimal strings produced by String(n), modelled as sequences of *)
(* decimal digits.  An async method of the repository contains no await,   *)
(* so its body is one step; registerUser awaits findByEmail, so it is two  *)
(* steps with the continuation scheduled after the await.                  *)
(*                                                                         *)
(* Data mapper example: UserMapper over rows whose fields may be absent     *)
(* and whose created_at may not parse.                                     *)
(***************************************************************************)
EXTENDS Integers, Sequences, FiniteSets, TLC

\* ---------------------------------------------------------------- bounds
MaxCreates == 2         \* create calls in Spec, SpecService and SpecRace
MaxLongCreates == 10    \* create calls in SpecIds (the identifier reaches two digits)
MaxStored == 2          \* entries held at once in SpecIds
MaxRows == 2        \* rows in one batch conversion
MaxAdds == 3        \* add* calls made on one builder
MaxPizzas == 3      \* Pizza objects one builder allocates
MaxStrategies == 3  \* PaymentStrategy objects made
MaxObjects == 3         \* User objects allocated in SpecObjects

\* ---------------------------------------------------------------- values
Names == {"Alice", "Bob"}
Emails == {"a@x.com", "b@x.com"}
Times == {0, 1}                 \* values of new Date()
Procs == {1, 2}                 \* callers that may have a registerUser call in flight

Undefined == [kind |-> "undefined"]  \* undefined where a User object is expected
Null == [kind |-> "null"]            \* the JavaScript value null
Void == [kind |-> "void"]       \* result of a Promise<void>

NoError == "none"
NotFoundError == "NotFound"     \* Error(`User with id ${id} not found`)
DuplicateError == "Duplicate"   \* Error(`User with email ${email} already exists`)

\* String(n) for a positive integer n: its decimal digits, most significant first
RECURSIVE String(_)
String(n) == IF n < 10 THEN <<n>> ELSE String(n \div 10) \o <<n % 10>>

\* Number(s) for a decimal digit string s
RECURSIVE Number(_)
Number(s) == IF Len(s) = 0 THEN 0 ELSE 10 * Number(SubSeq(s, 1, Len(s) - 1)) + s[Len(s)]

\* identifiers a caller may pass: every identifier the store can issue, and "999"
IdInputs(max) == {String(n) : n \in 1..max} \cup {<<9, 9, 9>>}

\* CreateUserDto: both fields required
CreateUserDtos == [name : Names, email : Emails]

\* UpdateUserDto: each field optional
UpdateUserDtos ==
    { p \in UNION { [fs -> Names \cup Emails] : fs \in SUBSET {"name", "email"} } :
        /\ "name" \in DOMAIN p => p["name"] \in Names
        /\ "email" \in DOMAIN p => p["email"] \in Emails }

\* ---------------------------------------------------------------- Map<string, User>
MapKeys(m) == { m[i].key : i \in 1..Len(m) }
MapHas(m, k) == k \in MapKeys(m)
MapIndex(m, k) == CHOOSE i \in 1..Len(m) : m[i].key = k
MapGet(m, k) == IF MapHas(m, k) THEN m[MapIndex(m, k)].val ELSE Undefined

\* variant: set re-inserts an existing key at the end
MapSetMoveToEnd(m, k, v) ==
    Append(SelectSeq(m, LAMBDA e : e.key # k), [key |-> k, val |-> v])

\* Map.prototype.set: an existing key keeps its position, a new key is appended
MapSet(m, k, v) ==
    IF MapHas(m, k)
    THEN [m EXCEPT ![MapIndex(m, k)] = [key |-> k, val |-> v]]
    ELSE Append(m, [key |-> k, val |-> v])

\* variant: the filter is inverted
MapDeleteOthers(m, k) == SelectSeq(m, LAMBDA e : e.key = k)

\* Map.prototype.delete
MapDelete(m, k) == SelectSeq(m, LAMBDA e : e.key # k)

\* Map.prototype.values(), in iteration order
MapValues(m) == [i \in 1..Len(m) |-> m[i].val]

\* ---------------------------------------------------------------- state
VARIABLES
    users,      \* InMemoryUserRepository.users
    nextId,     \* InMemoryUserRepository.nextId
    calls,      \* per in-flight registerUser call: pc, arguments, the awaited result
    last,       \* the call that completed last: op, arg, ret, err
    issued,     \* history: identifiers returned by create, in call order
    removed,    \* history: identifiers whose delete succeeded
    heap,       \* SpecObjects: the User objects allocated so far, by address
    held,       \* SpecObjects: what a caller kept from an earlier call
    main,       \* SpecMain: position and locals of main()
    twin,       \* SpecTwin: outcome of a second run of the last call
    mapper,     \* SpecMapper: the mapper call made last
    pure,       \* SpecPure: the mapper instances' fields and an earlier conversion
    rejoin,     \* SpecRejoin: history of the e-mails freed by removeUser
    builder,    \* SpecBuilder: CustomPizzaBuilder.pizza, the pizzas made, the call made last
    checkout    \* SpecCheckout: Checkout.strategy, the strategies made, the call made last

vars == <<users, nextId, calls, last, issued, removed, heap, held, main, twin, mapper,
          pure, rejoin, builder, checkout>>

\* the variables of one specification are left alone by the others
objectVars == <<heap, held>>
exampleVars == <<pure, rejoin, builder, checkout>>

IdleCall == [pc |-> "idle"]

\* ---------------------------------------------------------------- InMemoryUserRepository
\* Each method is given as its effect on the repository S = [users, nextId]:
\* the fields after the call, the value returned and the error thrown.
Store == [users |-> users, nextId |-> nextId]

Outcome(S, ret, err) == [users |-> S.users, nextId |-> S.nextId, ret |-> ret, err |-> err]

\* variant: the identifier is taken from the number of stored entries
createSizeId(S, data, t) ==
    LET user == [id |-> String(Len(S.users) + 1), name |-> data.name,
                 email |-> data.email, createdAt |-> t]
    IN  [users |-> MapSet(S.users, user.id, user), nextId |-> S.nextId + 1,
         ret |-> user, err |-> NoError]

\* variant: ++nextId in place of nextId++
createPreIncrement(S, data, t) ==
    LET user == [id |-> String(S.nextId + 1), name |-> data.name,
                 email |-> data.email, createdAt |-> t]
    IN  [users |-> MapSet(S.users, user.id, user), nextId |-> S.nextId + 1,
         ret |-> user, err |-> NoError]

\* variant: the identifier is taken from the clock
createDateId(S, data, t) ==
    LET user == [id |-> String(t + 1), name |-> data.name,
                 email |-> data.email, createdAt |-> t]
    IN  [users |-> MapSet(S.users, user.id, user), nextId |-> S.nextId + 1,
         ret |-> user, err |-> NoError]

\* variant: the entry is stored under the counter's value after the increment
createKeyAfterIncrement(S, data, t) ==
    LET user == [id |-> String(S.nextId), name |-> data.name,
                 email |-> data.email, createdAt |-> t]
    IN  [users |-> MapSet(S.users, String(S.nextId + 1), user), nextId |-> S.nextId + 1,
         ret |-> user, err |-> NoError]

\* create(data), with t the value of new Date()
create(S, data, t) ==
    LET user == [id |-> String(S.nextId), name |-> data.name,
                 email |-> data.email, createdAt |-> t]
    IN  [users |-> MapSet(S.users, user.id, user), nextId |-> S.nextId + 1,
         ret |-> user, err |-> NoError]

\* variant: an absent id is an error
findByIdThrows(S, id) ==
    LET user == MapGet(S.users, id)
    IN  IF user = Undefined THEN Outcome(S, Void, NotFoundError) ELSE Outcome(S, user, NoError)

\* findById(id): users.get(id) ?? null
findById(S, id) ==
    LET user == MapGet(S.users, id)
    IN  Outcome(S, IF user = Undefined THEN Null ELSE user, NoError)

\* variant: the scan keeps the last match
findByEmailLast(S, email) ==
    LET vals == MapValues(S.users)
        hits == { i \in 1..Len(vals) : vals[i].email = email }
    IN  Outcome(S, IF hits = {} THEN Null
                   ELSE vals[CHOOSE i \in hits : \A j \in hits : i >= j], NoError)

\* findByEmail(email): the first value in iteration order whose email matches
findByEmail(S, email) ==
    LET vals == MapValues(S.users)
        hits == { i \in 1..Len(vals) : vals[i].email = email }
    IN  Outcome(S, IF hits = {} THEN Null
                   ELSE vals[CHOOSE i \in hits : \A j \in hits : i <= j], NoError)

\* findAll(): Array.from(users.values())
findAll(S) == Outcome(S, MapValues(S.users), NoError)

\* variant: { ...data, ...user }
SpreadUserWins(user, data) ==
    [f \in DOMAIN user \cup DOMAIN data |-> IF f \in DOMAIN user THEN user[f] ELSE data[f]]

\* { ...user, ...data }: own properties of user, then those of data over them
Spread(user, data) ==
    [f \in DOMAIN user \cup DOMAIN data |-> IF f \in DOMAIN data THEN data[f] ELSE user[f]]

\* variant: no check that id is present
updateUpsert(S, id, data) ==
    LET user == MapGet(S.users, id)
        updated == IF user = Undefined THEN data ELSE Spread(user, data)
    IN  [users |-> MapSet(S.users, id, updated), nextId |-> S.nextId,
         ret |-> updated, err |-> NoError]

\* variant: the entry is deleted and set again
updateReinsert(S, id, data) ==
    LET user == MapGet(S.users, id)
    IN  IF user = Undefined
        THEN Outcome(S, Void, NotFoundError)
        ELSE LET updated == Spread(user, data)
             IN  [users |-> MapSet(MapDelete(S.users, id), id, updated), nextId |-> S.nextId,
                  ret |-> updated, err |-> NoError]

\* update(id, data)
update(S, id, data) ==
    LET user == MapGet(S.users, id)
    IN  IF user = Undefined
        THEN Outcome(S, Void, NotFoundError)
        ELSE LET updated == Spread(user, data)
             IN  [users |-> MapSet(S.users, id, updated), nextId |-> S.nextId,
                  ret |-> updated, err |-> NoError]

\* variant: the entry is not removed
deleteKeepsEntry(S, id) ==
    IF ~MapHas(S.users, id)
    THEN Outcome(S, Void, NotFoundError)
    ELSE Outcome(S, Void, NoError)

\* variant: deleting an absent id succeeds
deleteIdempotent(S, id) ==
    [users |-> MapDelete(S.users, id), nextId |-> S.nextId, ret |-> Void, err |-> NoError]

\* delete(id)
delete(S, id) ==
    IF ~MapHas(S.users, id)
    THEN Outcome(S, Void, NotFoundError)
    ELSE [users |-> MapDelete(S.users, id), nextId |-> S.nextId,
          ret |-> Void, err |-> NoError]

Init ==
    /\ users = <<>>
    /\ nextId = 1
    /\ calls = [p \in Procs |-> IdleCall]
    /\ last = [op |-> "new", arg |-> Void, ret |-> Void, err |-> NoError]
    /\ issued = <<>>
    /\ removed = {}
    /\ heap = <<>>
    /\ held = [kind |-> "none"]
    /\ main = [pc |-> "start"]
    /\ twin = [users |-> <<>>, nextId |-> 1, ret |-> Void, err |-> NoError]
    /\ mapper = [op |-> "new"]
    /\ pure = [op |-> "new"]
    /\ rejoin = [freed |-> {}, again |-> FALSE]
    /\ builder = [op |-> "new"]
    /\ checkout = [op |-> "new"]

\* ---------------------------------------------------------------- repository calls
\* A completed call R of method op with argument arg takes effect
Complete(op, arg, R) ==
    /\ users' = R.users
    /\ nextId' = R.nextId
    /\ last' = [op |-> op, arg |-> arg, ret |-> R.ret, err |-> R.err]

Create(data) ==
    \E t \in Times :
        LET R == create(Store, data, t)
        IN  /\ Complete("create", data, R)
            /\ issued' = Append(issued, R.ret.id)
            /\ UNCHANGED <<calls, removed>>

FindById(id) ==
    /\ Complete("findById", id, findById(Store, id))
    /\ UNCHANGED <<calls, issued, removed>>

FindByEmail(email) ==
    /\ Complete("findByEmail", email, findByEmail(Store, email))
    /\ UNCHANGED <<calls, issued, removed>>

FindAll ==
    /\ Complete("findAll", Void, findAll(Store))
    /\ UNCHANGED <<calls, issued, removed>>

Update(id, data) ==
    /\ Complete("update", [id |-> id, data |-> data], update(Store, id, data))
    /\ UNCHANGED <<calls, issued, removed>>

Delete(id) ==
    LET R == delete(Store, id)
    IN  /\ Complete("delete", id, R)
        /\ removed' = IF R.err = NoError THEN removed \cup {id} ELSE removed
        /\ UNCHANGED <<calls, issued>>

\* ---------------------------------------------------------------- UserService
NoneInFlight == \A p \in Procs : calls[p].pc = "idle"

\* registerUser up to its await: findByEmail runs, the caller is suspended
RegisterUserCall(p, name, email) ==
    /\ calls[p].pc = "idle"
    /\ LET R == findByEmail(Store, email)
       IN  /\ Complete("findByEmail", email, R)
           /\ calls' = [calls EXCEPT ![p] = [pc |-> "await", name |-> name,
                                             email |-> email, existing |-> R.ret]]
    /\ UNCHANGED <<issued, removed>>

\* variant: no duplicate check
registerUserNoCheck(S, c, t) == create(S, [name |-> c.name, email |-> c.email], t)

\* variant: the duplicate check is made again on the store as it is at resumption
registerUserRecheck(S, c, t) ==
    IF c.existing # Null \/ findByEmail(S, c.email).ret # Null
    THEN Outcome(S, Void, DuplicateError)
    ELSE create(S, [name |-> c.name, email |-> c.email], t)

\* variant: create is called before the result of the check is looked at
registerUserCreateFirst(S, c, t) ==
    LET R == create(S, [name |-> c.name, email |-> c.email], t)
    IN  IF c.existing # Null
        THEN [users |-> R.users, nextId |-> R.nextId, ret |-> Void, err |-> DuplicateError]
        ELSE R

\* registerUser after its await: throw on a match, else create
registerUserResume(S, c, t) ==
    IF c.existing # Null
    THEN Outcome(S, Void, DuplicateError)
    ELSE create(S, [name |-> c.name, email |-> c.email], t)

RegisterUserResume(p) ==
    /\ calls[p].pc = "await"
    /\ \E t \in Times :
        LET R == registerUserResume(Store, calls[p], t)
        IN  /\ Complete("registerUser", [name |-> calls[p].name, email |-> calls[p].email], R)
            /\ issued' = IF R.err = NoError THEN Append(issued, R.ret.id) ELSE issued
    /\ calls' = [calls EXCEPT ![p] = IdleCall]
    /\ UNCHANGED removed

GetUserProfile(id) ==
    /\ Complete("getUserProfile", id, findById(Store, id))
    /\ UNCHANGED <<calls, issued, removed>>

\* variant: an error of the repository is caught and null returned
UpdateUserNameSwallow(id, name) ==
    LET R == update(Store, id, [name |-> name])
    IN  /\ Complete("updateUserName", [id |-> id, name |-> name],
                    IF R.err = NoError THEN R ELSE Outcome(Store, Null, NoError))
        /\ UNCHANGED <<calls, issued, removed>>

UpdateUserName(id, name) ==
    /\ Complete("updateUserName", [id |-> id, name |-> name],
                update(Store, id, [name |-> name]))
    /\ UNCHANGED <<calls, issued, removed>>

RemoveUser(id) ==
    LET R == delete(Store, id)
    IN  /\ Complete("removeUser", id, R)
        /\ removed' = IF R.err = NoError THEN removed \cup {id} ELSE removed
        /\ UNCHANGED <<calls, issued>>

\* ---------------------------------------------------------------- specifications
\* Spec: the repository used directly
Next ==
    \/ \E data \in CreateUserDtos :
        nextId <= MaxCreates /\ Create(data)
        /\ UNCHANGED <<objectVars, main, twin, mapper, exampleVars>>
    \/ \E id \in IdInputs(MaxCreates) :
        FindById(id) /\ UNCHANGED <<objectVars, main, twin, mapper, exampleVars>>
    \/ \E email \in Emails :
        FindByEmail(email) /\ UNCHANGED <<objectVars, main, twin, mapper, exampleVars>>
    \/ FindAll /\ UNCHANGED <<objectVars, main, twin, mapper, exampleVars>>
    \/ \E id \in IdInputs(MaxCreates), data \in UpdateUserDtos :
        Update(id, data) /\ UNCHANGED <<objectVars, main, twin, mapper, exampleVars>>
    \/ \E id \in IdInputs(MaxCreates) :
        Delete(id) /\ UNCHANGED <<objectVars, main, twin, mapper, exampleVars>>

Spec == Init /\ [][Next]_vars

\* SpecIds: long runs of create of one user, with delete keeping the store small
NextIds ==
    \/ \E data \in {[name |-> "Alice", email |-> "a@x.com"]} :
        nextId <= MaxLongCreates /\ Len(users) < MaxStored /\ Create(data)
        /\ UNCHANGED <<objectVars, main, twin, mapper, exampleVars>>
    \/ \E id \in MapKeys(users) \cup {<<9, 9, 9>>} :
        Delete(id) /\ UNCHANGED <<objectVars, main, twin, mapper, exampleVars>>

SpecIds == Init /\ [][NextIds]_vars

\* SpecService: the service only, each call run to completion before the next
NextService ==
    \/ \E p \in Procs, name \in Names, email \in Emails :
        NoneInFlight /\ nextId <= MaxCreates /\ RegisterUserCall(p, name, email)
        /\ UNCHANGED <<objectVars, main, twin, mapper, exampleVars>>
    \/ \E p \in Procs :
        RegisterUserResume(p) /\ UNCHANGED <<objectVars, main, twin, mapper, exampleVars>>
    \/ \E id \in IdInputs(MaxCreates) :
        NoneInFlight /\ GetUserProfile(id) /\ UNCHANGED <<objectVars, main, twin, mapper, exampleVars>>
    \/ \E id \in IdInputs(MaxCreates), name \in Names :
        NoneInFlight /\ UpdateUserName(id, name)
        /\ UNCHANGED <<objectVars, main, twin, mapper, exampleVars>>
    \/ \E id \in IdInputs(MaxCreates) :
        NoneInFlight /\ RemoveUser(id) /\ UNCHANGED <<objectVars, main, twin, mapper, exampleVars>>

SpecService == Init /\ [][NextService]_vars

\* SpecRace: the service only, calls issued while others are suspended at an await
NextRace ==
    \/ \E p \in Procs, name \in Names, email \in Emails :
        nextId + Cardinality({q \in Procs : calls[q].pc = "await"}) <= MaxCreates
        /\ RegisterUserCall(p, name, email)
        /\ UNCHANGED <<objectVars, main, twin, mapper, exampleVars>>
    \/ \E p \in Procs :
        RegisterUserResume(p) /\ UNCHANGED <<objectVars, main, twin, mapper, exampleVars>>
    \/ \E id \in IdInputs(MaxCreates) :
        GetUserProfile(id) /\ UNCHANGED <<objectVars, main, twin, mapper, exampleVars>>
    \/ \E id \in IdInputs(MaxCreates), name \in Names :
        UpdateUserName(id, name) /\ UNCHANGED <<objectVars, main, twin, mapper, exampleVars>>
    \/ \E id \in IdInputs(MaxCreates) :
        RemoveUser(id) /\ UNCHANGED <<objectVars, main, twin, mapper, exampleVars>>

SpecRace == Init /\ [][NextRace]_vars

\* ---------------------------------------------------------------- objects
\* SpecObjects: the repository with the identity of its objects.  A User
\* object lives in heap at its address; users maps each key to an address; a
\* caller that keeps a result keeps addresses.  An object literal allocates.
NullRef == 0

ObjStore == [users |-> users, nextId |-> nextId, heap |-> heap]

ObjOutcome(S, ret, err) ==
    [users |-> S.users, nextId |-> S.nextId, heap |-> S.heap, ret |-> ret, err |-> err]

\* create(data): const user = { ... }; users.set(user.id, user); return user
createObj(S, data, t) ==
    LET user == [id |-> String(S.nextId), name |-> data.name,
                 email |-> data.email, createdAt |-> t]
        a == Len(S.heap) + 1
    IN  [users |-> MapSet(S.users, user.id, a), nextId |-> S.nextId + 1,
         heap |-> Append(S.heap, user), ret |-> a, err |-> NoError]

\* variant: a found entry is moved to the end of the map
findByIdObjTouch(S, id) ==
    IF MapHas(S.users, id)
    THEN [users |-> MapSetMoveToEnd(S.users, id, MapGet(S.users, id)), nextId |-> S.nextId,
          heap |-> S.heap, ret |-> MapGet(S.users, id), err |-> NoError]
    ELSE ObjOutcome(S, NullRef, NoError)

\* findById(id): users.get(id) ?? null
findByIdObj(S, id) ==
    ObjOutcome(S, IF MapHas(S.users, id) THEN MapGet(S.users, id) ELSE NullRef, NoError)

\* findByEmail(email)
findByEmailObj(S, email) ==
    LET refs == MapValues(S.users)
        hits == { i \in 1..Len(refs) : S.heap[refs[i]].email = email }
    IN  ObjOutcome(S, IF hits = {} THEN NullRef
                      ELSE refs[CHOOSE i \in hits : \A j \in hits : i <= j], NoError)

\* findAll(): a new array of the values
findAllObj(S) == ObjOutcome(S, MapValues(S.users), NoError)

\* variant: Object.assign(user, data) on the stored object
updateObjInPlace(S, id, data) ==
    IF ~MapHas(S.users, id)
    THEN ObjOutcome(S, Void, NotFoundError)
    ELSE LET a == MapGet(S.users, id)
         IN  [users |-> MapSet(S.users, id, a), nextId |-> S.nextId,
              heap |-> [S.heap EXCEPT ![a] = Spread(@, data)], ret |-> a, err |-> NoError]

\* update(id, data): const updated = { ...user, ...data }; users.set(id, updated)
updateObj(S, id, data) ==
    IF ~MapHas(S.users, id)
    THEN ObjOutcome(S, Void, NotFoundError)
    ELSE LET updated == Spread(S.heap[MapGet(S.users, id)], data)
             a == Len(S.heap) + 1
         IN  [users |-> MapSet(S.users, id, a), nextId |-> S.nextId,
              heap |-> Append(S.heap, updated), ret |-> a, err |-> NoError]

\* delete(id)
deleteObj(S, id) ==
    IF ~MapHas(S.users, id)
    THEN ObjOutcome(S, Void, NotFoundError)
    ELSE [users |-> MapDelete(S.users, id), nextId |-> S.nextId, heap |-> S.heap,
          ret |-> Void, err |-> NoError]

\* the addresses a result carries
Refs(op, R) ==
    IF R.err # NoError \/ op = "delete" THEN <<>>
    ELSE IF op = "findAll" THEN R.ret
    ELSE IF R.ret = NullRef THEN <<>> ELSE <<R.ret>>

\* A completed call takes effect; the caller keeps its result (keep) or goes
\* on holding what it held, which then has seen a later read or write.
ObjComplete(op, arg, R, keep) ==
    /\ users' = R.users
    /\ nextId' = R.nextId
    /\ heap' = R.heap
    /\ last' = [op |-> op, arg |-> arg, ret |-> R.ret, err |-> R.err]
    /\ held' =
        IF keep /\ Refs(op, R) # <<>>
        THEN [kind |-> op, refs |-> Refs(op, R),
              vals |-> [i \in 1..Len(Refs(op, R)) |-> R.heap[Refs(op, R)[i]]],
              since |-> "taken"]
        ELSE IF held.kind = "none" THEN held
        ELSE IF op \in {"create", "update", "delete"} THEN [held EXCEPT !.since = "writes"]
        ELSE IF held.since = "taken" THEN [held EXCEPT !.since = "reads"]
        ELSE held
    /\ UNCHANGED <<calls, issued, removed, main, twin, mapper, exampleVars>>

ObjCreate(data, t, keep) == ObjComplete("create", data, createObj(ObjStore, data, t), keep)

ObjFindById(id, keep) == ObjComplete("findById", id, findByIdObj(ObjStore, id), keep)

ObjFindByEmail(email, keep) ==
    ObjComplete("findByEmail", email, findByEmailObj(ObjStore, email), keep)

ObjFindAll(keep) == ObjComplete("findAll", Void, findAllObj(ObjStore), keep)

ObjUpdate(id, data) ==
    ObjComplete("update", [id |-> id, data |-> data], updateObj(ObjStore, id, data), FALSE)

ObjDelete(id) == ObjComplete("delete", id, deleteObj(ObjStore, id), FALSE)

\* inputs of SpecObjects: two users, created at one time, and three patches
ObjDtos == {[name |-> "Alice", email |-> "a@x.com"], [name |-> "Bob", email |-> "b@x.com"]}
ObjPatches == {[name |-> "Bob"], [email |-> "b@x.com"], [name |-> "Alice", email |-> "a@x.com"]}

NextObjects ==
    \/ \E data \in ObjDtos, keep \in BOOLEAN :
        nextId <= MaxCreates /\ Len(heap) < MaxObjects /\ ObjCreate(data, 0, keep)
    \/ \E id \in IdInputs(MaxCreates), keep \in BOOLEAN : ObjFindById(id, keep)
    \/ \E email \in Emails, keep \in BOOLEAN : ObjFindByEmail(email, keep)
    \/ \E keep \in BOOLEAN : ObjFindAll(keep)
    \/ \E id \in IdInputs(MaxCreates), data \in ObjPatches :
        Len(heap) < MaxObjects /\ ObjUpdate(id, data)
    \/ \E id \in IdInputs(MaxCreates) : ObjDelete(id)

SpecObjects == Init /\ [][NextObjects]_vars

\* SpecRejoin: the service used one call at a time, with the history of the
\* e-mails whose user removeUser has removed and that nobody has registered
\* since (freed), and whether the registration completed last was of such an
\* e-mail (again)
rejoinFrame == <<objectVars, main, twin, mapper, pure, builder, checkout>>

NextRejoin ==
    \/ \E p \in Procs, name \in Names, email \in Emails :
        NoneInFlight /\ nextId <= MaxCreates /\ RegisterUserCall(p, name, email)
        /\ UNCHANGED <<rejoin, rejoinFrame>>
    \/ \E p \in Procs :
        /\ RegisterUserResume(p)
        /\ rejoin' = [freed |-> IF last'.err = NoError THEN rejoin.freed \ {calls[p].email}
                                ELSE rejoin.freed,
                      again |-> calls[p].email \in rejoin.freed]
        /\ UNCHANGED rejoinFrame
    \/ \E id \in IdInputs(MaxCreates) :
        NoneInFlight /\ GetUserProfile(id) /\ UNCHANGED <<rejoin, rejoinFrame>>
    \/ \E id \in IdInputs(MaxCreates), name \in Names :
        NoneInFlight /\ UpdateUserName(id, name) /\ UNCHANGED <<rejoin, rejoinFrame>>
    \/ \E id \in IdInputs(MaxCreates) :
        /\ NoneInFlight
        /\ RemoveUser(id)
        /\ rejoin' = [rejoin EXCEPT !.freed = IF MapHas(users, id)
                                              THEN @ \cup {MapGet(users, id).email} ELSE @]
        /\ UNCHANGED rejoinFrame

SpecRejoin == Init /\ [][NextRejoin]_vars

\* SpecAtomic: repository calls issued by several callers before any of them
\* has its result.  Calling an async method runs its body at once, up to the
\* first await in it; the caller goes on with the result in a later turn.
\* variant: create awaits between reading nextId and storing the user
AwaitsInBodyCreate(op) == op = "create"

\* no repository method has an await in its body
AwaitsInBody(op) == FALSE

\* the method op applied to the repository S
Apply(op, S, arg, t) ==
    IF op = "create" THEN create(S, arg, t)
    ELSE IF op = "findById" THEN findById(S, arg)
    ELSE IF op = "findByEmail" THEN findByEmail(S, arg)
    ELSE IF op = "findAll" THEN findAll(S)
    ELSE IF op = "update" THEN update(S, arg.id, arg.data)
    ELSE delete(S, arg)

\* the body of call c has run to its end with outcome R: the fields are
\* written and the promise is settled.  twin is the repository of a run that
\* makes the same calls one after another, in the order their bodies end, and
\* serial the outcome of the call in that run
BodyEnds(p, c, R) ==
    /\ users' = R.users
    /\ nextId' = R.nextId
    /\ LET Rs == Apply(c.op, [users |-> twin.users, nextId |-> twin.nextId], c.arg, c.t)
       IN  /\ twin' = [users |-> Rs.users, nextId |-> Rs.nextId, ret |-> Void, err |-> NoError]
           /\ calls' = [calls EXCEPT ![p] = [pc |-> "settled", op |-> c.op, arg |-> c.arg,
                                             ret |-> R.ret, err |-> R.err,
                                             serial |-> [ret |-> Rs.ret, err |-> Rs.err]]]
    /\ issued' = IF c.op = "create" THEN Append(issued, R.ret.id) ELSE issued
    /\ removed' = IF c.op = "delete" /\ R.err = NoError THEN removed \cup {c.arg} ELSE removed

\* caller p calls repo.op(arg)
AsyncCall(p, op, arg, t) ==
    /\ calls[p].pc = "idle"
    /\ IF AwaitsInBody(op)
       THEN /\ calls' = [calls EXCEPT ![p] = [pc |-> "body", op |-> op, arg |-> arg, t |-> t,
                                              seen |-> Store]]
            /\ UNCHANGED <<users, nextId, issued, removed, twin>>
       ELSE BodyEnds(p, [op |-> op, arg |-> arg, t |-> t], Apply(op, Store, arg, t))
    /\ UNCHANGED last

\* a later turn of caller p: a body that awaited goes on from what it had read;
\* a caller whose promise is settled receives the result
Continue(p) ==
    \/ /\ calls[p].pc = "body"
       /\ BodyEnds(p, calls[p], Apply(calls[p].op, calls[p].seen, calls[p].arg, calls[p].t))
       /\ UNCHANGED last
    \/ /\ calls[p].pc = "settled"
       /\ calls' = [calls EXCEPT ![p] = IdleCall]
       /\ UNCHANGED <<users, nextId, last, issued, removed, twin>>

CreatesBegun ==
    Len(issued) + Cardinality({p \in Procs : calls[p].pc = "body" /\ calls[p].op = "create"})

atomicFrame == <<objectVars, main, mapper, exampleVars>>

NextAtomic ==
    \/ \E p \in Procs, data \in ObjDtos :
        CreatesBegun < MaxCreates /\ AsyncCall(p, "create", data, 0) /\ UNCHANGED atomicFrame
    \/ \E p \in Procs, id \in IdInputs(MaxCreates) :
        AsyncCall(p, "findById", id, 0) /\ UNCHANGED atomicFrame
    \/ \E p \in Procs, email \in Emails :
        AsyncCall(p, "findByEmail", email, 0) /\ UNCHANGED atomicFrame
    \/ \E p \in Procs : AsyncCall(p, "findAll", Void, 0) /\ UNCHANGED atomicFrame
    \/ \E p \in Procs, id \in IdInputs(MaxCreates), data \in ObjPatches :
        AsyncCall(p, "update", [id |-> id, data |-> data], 0) /\ UNCHANGED atomicFrame
    \/ \E p \in Procs, id \in IdInputs(MaxCreates) :
        AsyncCall(p, "delete", id, 0) /\ UNCHANGED atomicFrame
    \/ \E p \in Procs : Continue(p) /\ UNCHANGED atomicFrame

SpecAtomic == Init /\ [][NextAtomic]_vars

\* ---------------------------------------------------------------- UserMapper
\* A row is a function from the fields it has to strings; reading a field it
\* lacks gives undefined.
UndefinedField == "<undefined>"

RowFields == {"user_id", "user_name", "user_email", "created_at"}

Field(row, f) == IF f \in DOMAIN row THEN row[f] ELSE UndefinedField

RowValues(f) ==
    IF f = "user_id" THEN {"usr_42", "usr_43"}
    ELSE IF f = "user_name" THEN {"Alice Johnson", "Bob Smith"}
    ELSE IF f = "user_email" THEN {"alice@example.com", "bob@example.com"}
    ELSE {"2024-06-15T10:30:00Z", "2025-01-20T08:00:00Z", "not-a-date"}

UserRows ==
    { row \in UNION { [fs -> UNION { RowValues(f) : f \in RowFields }] : fs \in SUBSET RowFields } :
        \A f \in DOMAIN row : row[f] \in RowValues(f) }

\* new Date(s): the instant the ISO string names (to the hour, UTC), or
\* Invalid Date for any other argument, undefined included
InvalidDate == [invalid |-> TRUE]

Date(s) ==
    IF s = "2024-06-15T10:30:00Z" THEN [year |-> 2024, month |-> 6, day |-> 15, hour |-> 10]
    ELSE IF s = "2025-01-20T08:00:00Z" THEN [year |-> 2025, month |-> 1, day |-> 20, hour |-> 8]
    ELSE InvalidDate

\* offsets from UTC, in hours, of the zone the process runs in
TimeZones == {-11, 0, 14}

MonthNames == <<"January", "February", "March", "April", "May", "June", "July",
                "August", "September", "October", "November", "December">>

\* date.toLocaleDateString("en-US", { year: "numeric", month: "long", day: "numeric" })
\* in the zone tz (the days used stay within their month)
toLocaleDateString(date, tz) ==
    IF date = InvalidDate THEN "Invalid Date"
    ELSE LET local == date.hour + tz
             day == IF local >= 24 THEN date.day + 1
                    ELSE IF local < 0 THEN date.day - 1 ELSE date.day
         IN  MonthNames[date.month] \o " " \o ToString(day) \o ", " \o ToString(date.year)

\* new UserEntity(id, name, email, createdAt)
UserEntity(id, name, email, createdAt) ==
    [id |-> id, name |-> name, email |-> email, createdAt |-> createdAt]

\* variant: name and email passed in the wrong order
toEntitySwapped(row) ==
    UserEntity(Field(row, "user_id"), Field(row, "user_email"), Field(row, "user_name"),
               Date(Field(row, "created_at")))

\* UserMapper.toEntity(row)
toEntity(row) ==
    UserEntity(Field(row, "user_id"), Field(row, "user_name"), Field(row, "user_email"),
               Date(Field(row, "created_at")))

\* UserMapper.toDto(entity)
toDto(entity, tz) ==
    [id |-> entity.id, name |-> entity.name, email |-> entity.email,
     memberSince |-> toLocaleDateString(entity.createdAt, tz)]

\* variant: the payload also carries the name
userEntityToPayloadNamed(entity) ==
    [userId |-> entity.id, email |-> entity.email, name |-> entity.name]

\* PayloadMapper.userEntityToPayload(entity)
userEntityToPayload(entity) ==
    [userId |-> entity.id, email |-> entity.email]

\* the rows of main's batch, one row whose created_at does not parse and one
\* without a name
DbRow ==
    [user_id |-> "usr_42", user_name |-> "Alice Johnson",
     user_email |-> "alice@example.com", created_at |-> "2024-06-15T10:30:00Z"]

BatchRows ==
    { DbRow,
      [user_id |-> "usr_43", user_name |-> "Bob Smith",
       user_email |-> "bob@example.com", created_at |-> "2025-01-20T08:00:00Z"],
      [user_id |-> "usr_43", user_name |-> "Bob Smith",
       user_email |-> "bob@example.com", created_at |-> "not-a-date"],
      [user_id |-> "usr_42", user_email |-> "alice@example.com",
       created_at |-> "2024-06-15T10:30:00Z"] }

RowSeqs(n) == UNION { [1..k -> BatchRows] : k \in 0..n }

RECURSIVE rowsToDtos(_, _)

\* variant: rows whose created_at does not parse are left out
rowsToDtosSkipInvalid(rows, tz) ==
    LET Parses(row) == Date(Field(row, "created_at")) # InvalidDate
        kept == SelectSeq(rows, Parses)
    IN  [i \in 1..Len(kept) |-> toDto(toEntity(kept[i]), tz)]

\* rows.map((row) => userMapper.toDto(userMapper.toEntity(row))): map visits
\* the rows in index order and the result of each goes to the same index
rowsToDtos(rows, tz) ==
    IF rows = <<>> THEN <<>>
    ELSE <<toDto(toEntity(Head(rows)), tz)>> \o rowsToDtos(Tail(rows), tz)

\* the process starts in some time zone
Launch(tz) ==
    /\ mapper.op = "new"
    /\ mapper' = [op |-> "launch", tz |-> tz]

\* const entity = userMapper.toEntity(dbRow)
ToEntity(row) ==
    /\ mapper.op # "new"
    /\ mapper' = [op |-> "toEntity", tz |-> mapper.tz, row |-> row,
                  ret |-> toEntity(row), err |-> NoError]

\* const dto = userMapper.toDto(entity)
ToDto ==
    /\ mapper.op = "toEntity"
    /\ mapper' = [op |-> "toDto", tz |-> mapper.tz, row |-> mapper.row, arg |-> mapper.ret,
                  ret |-> toDto(mapper.ret, mapper.tz), err |-> NoError]

\* const payload = payloadMapper.userEntityToPayload(entity), on the entity that
\* toEntity returned, before or after toDto
UserEntityToPayload ==
    /\ mapper.op \in {"toEntity", "toDto"}
    /\ LET entity == IF mapper.op = "toEntity" THEN mapper.ret ELSE mapper.arg
       IN  mapper' = [op |-> "userEntityToPayload", tz |-> mapper.tz, row |-> mapper.row,
                      arg |-> entity, ret |-> userEntityToPayload(entity), err |-> NoError]

\* const dtos = rows.map(...)
Batch(rows) ==
    /\ mapper.op # "new"
    /\ mapper' = [op |-> "batch", tz |-> mapper.tz, rows |-> rows,
                  ret |-> rowsToDtos(rows, mapper.tz), err |-> NoError]

NextMapper ==
    \/ \E tz \in TimeZones : Launch(tz) /\ UNCHANGED <<users, nextId, calls, last, issued, removed, objectVars, main, twin, exampleVars>>
    \/ \E row \in UserRows : ToEntity(row) /\ UNCHANGED <<users, nextId, calls, last, issued, removed, objectVars, main, twin, exampleVars>>
    \/ ToDto /\ UNCHANGED <<users, nextId, calls, last, issued, removed, objectVars, main, twin, exampleVars>>
    \/ UserEntityToPayload /\ UNCHANGED <<users, nextId, calls, last, issued, removed, objectVars, main, twin, exampleVars>>
    \/ \E rows \in RowSeqs(MaxRows) : Batch(rows) /\ UNCHANGED <<users, nextId, calls, last, issued, removed, objectVars, main, twin, exampleVars>>

SpecMapper == Init /\ [][NextMapper]_vars

\* SpecPure: the two mapper instances as objects.  Neither class declares a
\* field, so an instance's state is the empty set of fields; a method call is
\* given the instance and returns the instance's fields after the call with
\* the value returned.
NoFields == [f \in {} |-> Void]

Methods == {"toEntity", "toDto", "userEntityToPayload"}

Receiver(method) == IF method = "userEntityToPayload" THEN "payloadMapper" ELSE "userMapper"

MethodArgs(method) ==
    IF method = "toEntity" THEN BatchRows ELSE { toEntity(row) : row \in BatchRows }

\* variant: the mapper keeps the entity it made last and returns it again for
\* a row with the same user_id
invokeCachedById(self, method, arg, tz) ==
    IF method = "toEntity"
    THEN IF "entity" \in DOMAIN self /\ self["entity"].id = Field(arg, "user_id")
         THEN [self |-> self, ret |-> self["entity"]]
         ELSE [self |-> [entity |-> toEntity(arg)], ret |-> toEntity(arg)]
    ELSE IF method = "toDto" THEN [self |-> self, ret |-> toDto(arg, tz)]
    ELSE [self |-> self, ret |-> userEntityToPayload(arg)]

\* self.method(arg): no method reads or assigns this
invoke(self, method, arg, tz) ==
    [self |-> self,
     ret |-> IF method = "toEntity" THEN toEntity(arg)
             ELSE IF method = "toDto" THEN toDto(arg, tz)
             ELSE userEntityToPayload(arg)]

NotPinned == [method |-> "none"]

\* const userMapper = new UserMapper(); const payloadMapper = new PayloadMapper()
PureLaunch(tz) ==
    /\ pure.op = "new"
    /\ pure' = [op |-> "launch", tz |-> tz, userMapper |-> NoFields, payloadMapper |-> NoFields,
                pinned |-> NotPinned, others |-> FALSE]

\* one conversion; with keep, the observer remembers it to compare with later
\* conversions; others records that a different conversion followed the one
\* remembered
Convert(method, arg, keep) ==
    /\ pure.op # "new"
    /\ LET receiver == Receiver(method)
           R == invoke(pure[receiver], method, arg, pure.tz)
           call == [method |-> method, arg |-> arg, ret |-> R.ret]
           same == pure.pinned.method = method /\ pure.pinned.arg = arg
       IN  pure' = [op |-> "call", tz |-> pure.tz,
                    userMapper |-> IF receiver = "userMapper" THEN R.self ELSE pure.userMapper,
                    payloadMapper |-> IF receiver = "payloadMapper" THEN R.self ELSE pure.payloadMapper,
                    method |-> method, arg |-> arg, ret |-> R.ret,
                    pinned |-> IF keep THEN call ELSE pure.pinned,
                    others |-> IF keep THEN FALSE
                               ELSE pure.others \/ (pure.pinned.method # "none" /\ ~same),
                    before |-> pure.pinned]

NextPure ==
    \/ \E tz \in TimeZones : PureLaunch(tz)
        /\ UNCHANGED <<users, nextId, calls, last, issued, removed, objectVars, main, twin, mapper, rejoin, builder, checkout>>
    \/ \E method \in Methods : \E arg \in MethodArgs(method) : \E keep \in BOOLEAN :
        Convert(method, arg, keep)
        /\ UNCHANGED <<users, nextId, calls, last, issued, removed, objectVars, main, twin, mapper, rejoin, builder, checkout>>

SpecPure == Init /\ [][NextPure]_vars

\* ---------------------------------------------------------------- CustomPizzaBuilder
\* Pizza objects live at addresses 1, 2, ... of B.heap, each an ingredients
\* array; B.pizza is the address in this.pizza.
\* new Pizza(): a fresh object with ingredients = []
newPizza(pizzas) == Append(pizzas, <<>>)

\* constructor(): this.pizza = new Pizza()
CustomPizzaBuilder == [heap |-> newPizza(<<>>), pizza |-> 1]

\* this.pizza.ingredients.push(ingredient); return this
push(B, ingredient) ==
    [heap |-> [B.heap EXCEPT ![B.pizza] = Append(@, ingredient)], pizza |-> B.pizza,
     ret |-> "this"]

addDough(B) == push(B, "Thin Dough")
addCheese(B) == push(B, "Mozzarella Cheese")
addPepperoni(B) == push(B, "Spicy Pepperoni")
addMushrooms(B) == push(B, "Fresh Mushrooms")

\* variant: build hands out this.pizza and keeps it
buildNoReset(B) ==
    [heap |-> B.heap, pizza |-> B.pizza, ret |-> B.pizza]

\* variant: build resets by emptying the ingredients array of this.pizza
buildClearInPlace(B) ==
    [heap |-> [B.heap EXCEPT ![B.pizza] = <<>>], pizza |-> B.pizza, ret |-> B.pizza]

\* build(): const result = this.pizza; this.pizza = new Pizza(); return result
build(B) ==
    [heap |-> newPizza(B.heap), pizza |-> Len(B.heap) + 1, ret |-> B.pizza]

RECURSIVE TotalLen(_)
TotalLen(pizzas) ==
    IF pizzas = <<>> THEN 0 ELSE Len(Head(pizzas)) + TotalLen(Tail(pizzas))

\* const builder = new CustomPizzaBuilder()
NewBuilder ==
    /\ builder.op = "new"
    /\ builder' = [op |-> "constructor", prev |-> "new",
                   heap |-> CustomPizzaBuilder.heap, pizza |-> CustomPizzaBuilder.pizza,
                   ret |-> NullRef, added |-> <<>>, wanted |-> <<>>,
                   kept |-> [ref |-> NullRef], after |-> {}]

\* the bookkeeping of one call on the builder: added is the history of the
\* ingredients asked for since the previous build, wanted its value when build
\* was called, kept a pizza the caller holds with the ingredients it had when
\* returned, after the kinds of call made since
BuilderCall(op, R, ingredient, keep) ==
    builder' = [op |-> op, prev |-> builder.op, heap |-> R.heap, pizza |-> R.pizza,
                ret |-> IF op = "build" THEN R.ret ELSE NullRef,
                added |-> IF op = "build" THEN <<>> ELSE Append(builder.added, ingredient),
                wanted |-> IF op = "build" THEN builder.added ELSE <<>>,
                kept |-> IF keep THEN [ref |-> R.ret, ingredients |-> R.heap[R.ret]]
                         ELSE builder.kept,
                after |-> IF keep THEN {}
                          ELSE IF builder.kept.ref = NullRef THEN {}
                          ELSE builder.after \cup {IF op = "build" THEN "build" ELSE "add"}]

CanAdd == builder.op # "new" /\ TotalLen(builder.heap) < MaxAdds

AddDough == CanAdd /\ BuilderCall("addDough", addDough(builder), "Thin Dough", FALSE)
AddCheese == CanAdd /\ BuilderCall("addCheese", addCheese(builder), "Mozzarella Cheese", FALSE)
AddPepperoni == CanAdd /\ BuilderCall("addPepperoni", addPepperoni(builder), "Spicy Pepperoni", FALSE)
AddMushrooms == CanAdd /\ BuilderCall("addMushrooms", addMushrooms(builder), "Fresh Mushrooms", FALSE)

Build(keep) ==
    /\ builder.op # "new"
    /\ Len(builder.heap) < MaxPizzas
    /\ BuilderCall("build", build(builder), "", keep)

builderFrame == <<users, nextId, calls, last, issued, removed, objectVars, main, twin, mapper, pure, rejoin, checkout>>

NextBuilder ==
    \/ NewBuilder /\ UNCHANGED builderFrame
    \/ AddDough /\ UNCHANGED builderFrame
    \/ AddCheese /\ UNCHANGED builderFrame
    \/ AddPepperoni /\ UNCHANGED builderFrame
    \/ AddMushrooms /\ UNCHANGED builderFrame
    \/ \E keep \in BOOLEAN : Build(keep) /\ UNCHANGED builderFrame

SpecBuilder == Init /\ [][NextBuilder]_vars

\* ---------------------------------------------------------------- Checkout
\* Strategy objects live at addresses 1, 2, ... of checkout.objects, each the
\* name of its class; Checkout.strategy is an address.
StrategyClasses == {"CreditCardPayment", "PayPalPayment", "CryptoPayment"}

Amounts == {100, 250}

\* strategy.pay(amount): the line the object's class writes
pay(class, amount) ==
    IF class = "CreditCardPayment" THEN "Processing credit card payment of $" \o ToString(amount)
    ELSE IF class = "PayPalPayment" THEN "Redirecting to PayPal to pay $" \o ToString(amount)
    ELSE "Sending $" \o ToString(amount) \o " via Bitcoin network"

\* constructor(strategy): this.strategy = strategy
Checkout(strategy) == [strategy |-> strategy]

\* variant: the strategy given to the constructor stays
setPaymentMethodIgnored(C, strategy) == [strategy |-> C.strategy]

\* setPaymentMethod(strategy): this.strategy = strategy
setPaymentMethod(C, strategy) == [strategy |-> strategy]

\* processOrder(amount): this.strategy.pay(amount); pays lists the pay calls
\* made, each with its receiver
processOrder(C, objects, amount) ==
    [strategy |-> C.strategy,
     pays |-> <<[on |-> C.strategy, amount |-> amount]>>,
     console |-> <<pay(objects[C.strategy], amount)>>]

\* new CreditCardPayment(), new PayPalPayment(), new CryptoPayment()
MakeStrategy(class) ==
    /\ IF checkout.op = "new" THEN TRUE ELSE Len(checkout.objects) < MaxStrategies
    /\ checkout' =
          IF checkout.op = "new"
          THEN [op |-> "made", objects |-> <<class>>, strategy |-> NullRef, latest |-> NullRef,
                pays |-> <<>>, console |-> <<>>]
          ELSE [checkout EXCEPT !.objects = Append(@, class)]

Constructed == checkout.op \notin {"new", "made"}

\* const checkout = new Checkout(strategy); latest is the history of the
\* strategy handed over last
NewCheckout(strategy) ==
    /\ checkout.op = "made"
    /\ strategy <= Len(checkout.objects)
    /\ checkout' = [checkout EXCEPT !.op = "constructor",
                                    !.strategy = Checkout(strategy).strategy,
                                    !.latest = strategy]

SetPaymentMethod(strategy) ==
    /\ Constructed
    /\ strategy <= Len(checkout.objects)
    /\ checkout' = [checkout EXCEPT !.op = "setPaymentMethod",
                                    !.strategy = setPaymentMethod(checkout, strategy).strategy,
                                    !.latest = strategy,
                                    !.pays = <<>>, !.console = <<>>]

ProcessOrder(amount) ==
    /\ Constructed
    /\ LET R == processOrder(checkout, checkout.objects, amount)
       IN  checkout' = [checkout EXCEPT !.op = "processOrder", !.strategy = R.strategy,
                                        !.pays = R.pays, !.console = R.console]

checkoutFrame == <<users, nextId, calls, last, issued, removed, objectVars, main, twin, mapper, pure, rejoin, builder>>

NextCheckout ==
    \/ \E class \in StrategyClasses : MakeStrategy(class) /\ UNCHANGED checkoutFrame
    \/ \E strategy \in 1..MaxStrategies :
        NewCheckout(strategy) /\ UNCHANGED checkoutFrame
    \/ \E strategy \in 1..MaxStrategies :
        SetPaymentMethod(strategy) /\ UNCHANGED checkoutFrame
    \/ \E amount \in Amounts : ProcessOrder(amount) /\ UNCHANGED checkoutFrame

SpecCheckout == Init /\ [][NextCheckout]_vars

\* SpecMain: main(), its literals drawn from the input sets.  Every call is
\* awaited before the next; a rejected registration ends main in its catch.
MainAt(pc) == main.pc = pc /\ UNCHANGED <<objectVars, twin, mapper, exampleVars>>

MainHolds(pc, local, value) == main' = [main EXCEPT !.pc = pc] @@ (local :> value)

NextMain ==
    \/ /\ MainAt("start")
       /\ \E name \in Names, email \in Emails : RegisterUserCall(1, name, email)
       /\ main' = [pc |-> "await alice"]
    \/ /\ MainAt("await alice")
       /\ RegisterUserResume(1)
       /\ main' = [pc |-> "alice", alice |-> last'.ret]
    \/ /\ MainAt("alice")
       /\ \E name \in Names, email \in Emails : RegisterUserCall(1, name, email)
       /\ main' = [main EXCEPT !.pc = "await bob"]
    \/ /\ MainAt("await bob")
       /\ RegisterUserResume(1)
       /\ IF last'.err = NoError
          THEN MainHolds("bob", "bob", last'.ret)
          ELSE main' = [main EXCEPT !.pc = "catch"]
    \/ /\ MainAt("bob")
       /\ GetUserProfile(main.alice.id)
       /\ MainHolds("found", "found", last'.ret)
    \/ /\ MainAt("found")
       /\ \E name \in Names : UpdateUserName(main.alice.id, name)
       /\ MainHolds("updated", "updated", last'.ret)
    \/ /\ MainAt("updated")
       /\ FindAll
       /\ MainHolds("listed", "allUsers", last'.ret)
    \/ /\ MainAt("listed")
       /\ RemoveUser(main.bob.id)
       /\ main' = [main EXCEPT !.pc = "removed"]
    \/ /\ MainAt("removed")
       /\ FindAll
       /\ MainHolds("done", "afterDelete", last'.ret)

SpecMain == Init /\ [][NextMain]_vars

\* SpecTwin: every call is run a second time from the same state with the same
\* arguments; only the clock read by new Date() is the second run's own.
\* findById, update and delete are reached through the service.
TwinIs(R) == twin' = R /\ UNCHANGED <<objectVars, main, mapper, exampleVars>>

NextTwin ==
    \/ \E data \in CreateUserDtos, t \in Times :
        NoneInFlight /\ nextId <= MaxCreates /\ Create(data)
        /\ TwinIs(create(Store, data, t))
    \/ \E email \in Emails :
        NoneInFlight /\ FindByEmail(email) /\ TwinIs(findByEmail(Store, email))
    \/ NoneInFlight /\ FindAll /\ TwinIs(findAll(Store))
    \/ \E name \in Names, email \in Emails :
        NoneInFlight /\ nextId <= MaxCreates /\ RegisterUserCall(1, name, email)
        /\ TwinIs(findByEmail(Store, email))
    \/ \E t \in Times :
        RegisterUserResume(1) /\ TwinIs(registerUserResume(Store, calls[1], t))
    \/ \E id \in IdInputs(MaxCreates) :
        NoneInFlight /\ GetUserProfile(id) /\ TwinIs(findById(Store, id))
    \/ \E id \in IdInputs(MaxCreates), name \in Names :
        NoneInFlight /\ UpdateUserName(id, name)
        /\ TwinIs(update(Store, id, [name |-> name]))
    \/ \E id \in IdInputs(MaxCreates) :
        NoneInFlight /\ RemoveUser(id) /\ TwinIs(delete(Store, id))

SpecTwin == Init /\ [][NextTwin]_vars

\* ---------------------------------------------------------------- properties
UniqueEmails ==
    \A i, j \in 1..Len(users) : i # j => users[i].val.email # users[j].val.email

UniqueKeys ==
    \A i, j \in 1..Len(users) : i # j => users[i].key # users[j].key

\* C1: when the store is used only through UserService and each call runs to
\* completion before the next starts (SpecService), no two stored entries have
\* the same email.
C1_UniqueEmailThroughService == UniqueEmails

C1_Witness ==
    /\ Len(users) = 2
    /\ last.op = "registerUser"
    /\ last.err = NoError

\* C2: registerUser is check-then-act (SpecRace): a call that passed the
\* findByEmail check before its await completes successfully and adds its
\* entry whatever the store holds at resumption, also when another call has
\* stored the same email in between; two entries then share that email.
C2_CheckThenActNotAtomic ==
    [][\A p \in Procs :
        (calls[p].pc = "await" /\ calls'[p].pc = "idle" /\ calls[p].existing = Null)
        => /\ last'.err = NoError
           /\ last'.ret.email = calls[p].email
           /\ Len(users') = Len(users) + 1
           /\ users'[Len(users')].val = last'.ret]_vars

C2_Witness ==
    /\ last.op = "registerUser"
    /\ last.err = NoError
    /\ Len(users) = 2
    /\ users[1].val.email = users[2].val.email
    /\ \A i \in 1..2 : users[i].key = issued[i]

\* C3: the identifiers returned by create are pairwise distinct and strictly
\* increasing as numbers in call order, the first being "1" (SpecIds).
C3_IdsIncreasing ==
    /\ issued # <<>> => issued[1] = <<1>>
    /\ \A i, j \in 1..Len(issued) :
        i < j => issued[i] # issued[j] /\ Number(issued[i]) < Number(issued[j])

C3_Witness ==
    /\ Len(issued) = 10
    /\ issued[9] = <<9>>
    /\ issued[10] = <<1, 0>>

\* C4: an identifier is never reused: the identifier returned by a create is
\* none of those returned before, also when the entry that carried it has been
\* deleted, and the map holds at most one entry per identifier.
C4_IdNeverReused ==
    [][/\ Len(issued') > Len(issued) =>
            /\ last'.ret.id = issued'[Len(issued')]
            /\ \A i \in 1..Len(issued) : issued[i] # last'.ret.id
            /\ last'.ret.id \notin removed
       /\ UniqueKeys']_vars

C4_Witness ==
    /\ last.op = "create"
    /\ Len(issued) = 2
    /\ issued[1] \in removed
    /\ ~MapHas(users, issued[1])

\* C5: update(id, patch) on a present id does not fail; the value it returns
\* is the value then stored under id, and equals the prior value with exactly
\* the patch's fields overwritten (id and createdAt among the fields kept).
C5_UpdateMergesPatch ==
    [][(last'.op = "update" /\ MapHas(users, last'.arg.id)) =>
        LET id == last'.arg.id
            data == last'.arg.data
            prior == MapGet(users, id)
        IN  /\ last'.err = NoError
            /\ MapGet(users', id) = last'.ret
            /\ DOMAIN last'.ret = {"id", "name", "email", "createdAt"}
            /\ \A f \in DOMAIN last'.ret :
                last'.ret[f] = IF f \in DOMAIN data THEN data[f] ELSE prior[f]
            /\ last'.ret.id = prior.id
            /\ last'.ret.createdAt = prior.createdAt]_vars

C5_Witness ==
    /\ last.op = "update"
    /\ last.err = NoError
    /\ DOMAIN last.arg.data = {"email"}
    /\ last.ret.email = last.arg.data.email
    /\ last.ret.createdAt = 1

\* C6: update(id, patch) with an id that is not in the store fails with the
\* not-found error and leaves the entries, their order and nextId unchanged.
C6_UpdateAbsentFails ==
    [][(last'.op = "update" /\ ~MapHas(users, last'.arg.id)) =>
        /\ last'.err = NotFoundError
        /\ users' = users
        /\ nextId' = nextId]_vars

C6_Witness ==
    /\ last.op = "update"
    /\ last.err = NotFoundError
    /\ last.arg.id = <<9, 9, 9>>
    /\ Len(users) = 2

\* C7: delete(id) of a present id succeeds, and from then on findById(id)
\* yields null and no value returned by findAll carries id.
C7_DeleteThenNotFound ==
    /\ [][(last'.op = "delete" /\ MapHas(users, last'.arg)) =>
            /\ last'.err = NoError
            /\ last'.arg \in removed'
            /\ Len(users') = Len(users) - 1]_vars
    /\ [](\A id \in removed :
            /\ findById(Store, id).ret = Null
            /\ \A i \in 1..Len(findAll(Store).ret) : findAll(Store).ret[i].id # id)
    /\ []((last.op = "findById" /\ last.arg \in removed) => last.ret = Null)

C7_Witness ==
    /\ last.op = "findById"
    /\ last.arg \in removed
    /\ last.ret = Null
    /\ Len(users) = 1

\* C8: delete(id) with an id that is not in the store, never created or
\* already deleted, fails with the not-found error and leaves the store
\* unchanged.
C8_DeleteAbsentFails ==
    [][(last'.op = "delete" /\ ~MapHas(users, last'.arg)) =>
        /\ last'.err = NotFoundError
        /\ users' = users
        /\ nextId' = nextId
        /\ removed' = removed]_vars

C8_Witness ==
    /\ last.op = "delete"
    /\ last.err = NotFoundError
    /\ last.arg \in removed
    /\ Len(users) = 1

\* C9: registerUser with an email that is already stored (SpecService) fails
\* with the duplicate error, changes neither the entries nor nextId and calls
\* no create; a registration that succeeds gets the identifier following the
\* last one issued, whatever failed in between.
C9_DuplicateRejected ==
    [][\A p \in Procs : (calls[p].pc = "await" /\ calls'[p].pc = "idle") =>
        IF findByEmail(Store, calls[p].email).ret # Null
        THEN /\ last'.err = DuplicateError
             /\ users' = users
             /\ nextId' = nextId
             /\ issued' = issued
        ELSE /\ last'.err = NoError
             /\ last'.ret.id = String(Len(issued) + 1)
             /\ issued' = Append(issued, last'.ret.id)]_vars

C9_Witness ==
    /\ last.op = "registerUser"
    /\ last.err = DuplicateError
    /\ Len(users) = 1
    /\ users[1].val.email = last.arg.email
    /\ users[1].val.name # last.arg.name

\* C10: findAll returns every stored entry exactly once, in the order in
\* which create first inserted their identifiers.
IssueIndex(id) == CHOOSE k \in 1..Len(issued) : issued[k] = id

C10_FindAllInsertionOrder ==
    last.op = "findAll" =>
        /\ Len(last.ret) = Cardinality(MapKeys(users))
        /\ \A k \in MapKeys(users) :
            \E i \in 1..Len(last.ret) :
                /\ last.ret[i] = MapGet(users, k)
                /\ \A j \in 1..Len(last.ret) : last.ret[j].id = k => j = i
        /\ \A i, j \in 1..Len(last.ret) :
            i < j => IssueIndex(last.ret[i].id) < IssueIndex(last.ret[j].id)

C10_Witness ==
    /\ last.op = "findAll"
    /\ Len(last.ret) = 2
    /\ last.ret[1].id = <<1>>
    /\ last.ret[2].id = <<2>>
    /\ last.ret[1].createdAt > last.ret[2].createdAt
    /\ last.ret[1].email = last.ret[2].email

\* C13: findById(id) never fails: it returns the value stored under id when id
\* is present and null when it is absent.
C13_FindByIdNeverFails ==
    last.op = "findById" =>
        /\ last.err = NoError
        /\ \A i \in 1..Len(users) : users[i].key = last.arg => last.ret = users[i].val
        /\ (\A i \in 1..Len(users) : users[i].key # last.arg) => last.ret = Null

C13_Witness ==
    /\ last.op = "findById"
    /\ last.arg = <<9, 9, 9>>
    /\ last.ret = Null
    /\ last.err = NoError
    /\ Len(users) = 2

\* C14: findByEmail(email) returns null when no stored entry has that email,
\* and otherwise the matching entry earliest in insertion order, also when
\* several stored entries have that email.
C14_FindByEmailFirstMatch ==
    last.op = "findByEmail" =>
        LET hits == { i \in 1..Len(users) : users[i].val.email = last.arg }
        IN  /\ last.err = NoError
            /\ hits = {} => last.ret = Null
            /\ hits # {} =>
                \E i \in hits :
                    /\ last.ret = users[i].val
                    /\ \A j \in hits :
                        j # i => IssueIndex(users[i].key) < IssueIndex(users[j].key)

C14_Witness ==
    /\ last.op = "findByEmail"
    /\ Len(users) = 2
    /\ users[1].val.email = last.arg
    /\ users[2].val.email = last.arg
    /\ last.ret = users[1].val
    /\ last.ret # users[2].val

\* C16: getUserProfile(id), updateUserName(id, name) and removeUser(id) give
\* the result or error, and the resulting store, of findById(id),
\* update(id, {name}) and delete(id); updateUserName changes only the name of
\* the entry under id.
SameOutcome(R) ==
    /\ last'.ret = R.ret
    /\ last'.err = R.err
    /\ users' = R.users
    /\ nextId' = R.nextId

C16_ServicePassthrough ==
    [][/\ last'.op = "getUserProfile" => SameOutcome(findById(Store, last'.arg))
       /\ last'.op = "removeUser" => SameOutcome(delete(Store, last'.arg))
       /\ last'.op = "updateUserName" =>
            /\ SameOutcome(update(Store, last'.arg.id, [name |-> last'.arg.name]))
            /\ Len(users') = Len(users)
            /\ \A i \in 1..Len(users) :
                IF users[i].key = last'.arg.id
                THEN /\ users'[i].key = users[i].key
                     /\ users'[i].val.name = last'.arg.name
                     /\ \A f \in {"id", "email", "createdAt"} :
                        users'[i].val[f] = users[i].val[f]
                ELSE users'[i] = users[i]]_vars

C16_Witness ==
    /\ last.op = "updateUserName"
    /\ last.err = NotFoundError
    /\ last.arg.id = <<2>>
    /\ Len(users) = 1
    /\ removed = {<<2>>}

\* C15: on a fresh store the first two creations return "1" and "2"; findAll
\* then returns the first entry followed by the second; after the second is
\* deleted, findAll returns only the first entry, unchanged (SpecMain).
MainPast(pcs) == main.pc \in pcs

C15_MainScenario ==
    /\ MainPast({"alice", "await bob", "catch"}) => main.alice.id = <<1>>
    /\ MainPast({"bob", "found", "updated", "listed", "removed", "done"}) =>
        /\ main.alice.id = <<1>>
        /\ main.bob.id = <<2>>
    /\ MainPast({"listed", "removed", "done"}) =>
        /\ Len(main.allUsers) = 2
        /\ main.allUsers[1] = main.updated
        /\ main.allUsers[1].id = main.alice.id
        /\ main.allUsers[1].email = main.alice.email
        /\ main.allUsers[1].createdAt = main.alice.createdAt
        /\ main.allUsers[2] = main.bob
    /\ MainPast({"done"}) => main.afterDelete = <<main.allUsers[1]>>

C15_Witness ==
    /\ main.pc = "done"
    /\ main.alice.name = "Alice"
    /\ main.bob.name = "Bob"
    /\ main.updated.name = "Alice"
    /\ Len(main.afterDelete) = 1
    /\ main.afterDelete[1].id = <<1>>
    /\ removed = {<<2>>}

\* C18 as claimed: two runs of a call from equal states with equal arguments
\* return equal results, or the same error, and end in equal stores.
C18_Deterministic ==
    /\ twin.err = last.err
    /\ twin.ret = last.ret
    /\ twin.users = users
    /\ twin.nextId = nextId

\* C18 as amended: the two runs agree in their error, in nextId, and in their
\* result and store but for the createdAt of the entry a create (or a
\* registerUser that creates) has made; every other call agrees in full.
SameButCreatedAt(u, v) == [u EXCEPT !.createdAt = v.createdAt] = v

Created == last.op \in {"create", "registerUser"} /\ last.err = NoError

C18_DeterministicButClock ==
    /\ twin.err = last.err
    /\ twin.nextId = nextId
    /\ Len(twin.users) = Len(users)
    /\ IF Created
       THEN /\ SameButCreatedAt(twin.ret, last.ret)
            /\ \A i \in 1..Len(users) :
                IF users[i].key = last.ret.id
                THEN /\ twin.users[i].key = users[i].key
                     /\ SameButCreatedAt(twin.users[i].val, users[i].val)
                ELSE twin.users[i] = users[i]
       ELSE twin.ret = last.ret /\ twin.users = users

C18_Witness ==
    /\ last.op = "create"
    /\ twin.ret.createdAt # last.ret.createdAt
    /\ twin.ret.id = <<2>>
    /\ Len(users) = 2

\* what the caller holds still reads as it did when it was returned
HeldIntact ==
    /\ Len(held.refs) = Len(held.vals)
    /\ \A i \in 1..Len(held.refs) : heap[held.refs[i]] = held.vals[i]

\* C11: a sequence returned by findAll keeps its length and the values of its
\* elements after any later create, update or delete (SpecObjects).
C11_FindAllSnapshot == held.kind = "findAll" => HeldIntact

C11_Witness ==
    /\ held.kind = "findAll"
    /\ held.since = "writes"
    /\ Len(held.refs) = 2
    /\ Len(users) = 1
    /\ users[1].key = held.vals[2].id
    /\ heap[users[1].val] # held.vals[2]

\* C12: findAll, findById and findByEmail change nothing in the store, and a
\* findAll returns the same elements in the same order as an earlier findAll
\* when only reads were made in between (SpecObjects).
C12_ReadsChangeNothing ==
    /\ [][last'.op \in {"findAll", "findById", "findByEmail"} =>
            /\ users' = users
            /\ nextId' = nextId
            /\ heap' = heap]_vars
    /\ []((last.op = "findAll" /\ held.kind = "findAll" /\ held.since # "writes") =>
            /\ last.ret = held.refs
            /\ Len(last.ret) = Len(held.vals)
            /\ \A i \in 1..Len(last.ret) : heap[last.ret[i]] = held.vals[i])

C12_Witness ==
    /\ last.op = "findAll"
    /\ held.kind = "findAll"
    /\ held.since = "reads"
    /\ Len(last.ret) = 2
    /\ last.ret = held.refs

\* C17: update replaces the stored object and mutates none: the object it
\* returns is newly allocated, every object that existed keeps its fields,
\* and a value a caller got earlier from create, findById, findByEmail or
\* findAll still reads as it did (SpecObjects).
C17_ReplacedNotMutated ==
    /\ [][(last'.op = "update" /\ last'.err = NoError) =>
            /\ Len(heap') >= Len(heap)
            /\ \A a \in 1..Len(heap) : heap'[a] = heap[a]
            /\ last'.ret \in 1..Len(heap')
            /\ Len(heap') > Len(heap) => last'.ret \notin 1..Len(heap)
            /\ MapGet(users', last'.arg.id) = last'.ret]_vars
    /\ [](held.kind \in {"create", "findById", "findByEmail", "findAll"} => HeldIntact)
    /\ []((last.op = "update" /\ last.err = NoError /\ held.kind # "none") =>
            \A i \in 1..Len(held.refs) : held.refs[i] # last.ret)

C17_Witness ==
    /\ held.kind = "findById"
    /\ last.op = "update"
    /\ last.err = NoError
    /\ last.arg.id = held.vals[1].id
    /\ heap[last.ret] # held.vals[1]
    /\ heap[held.refs[1]] = held.vals[1]

\* a row with all four fields and a created_at that parses
WellFormed(row) == DOMAIN row = RowFields /\ Date(row["created_at"]) # InvalidDate

MalformedInputError == "MalformedInput"

\* C19 as claimed: toEntity fails with the malformed-input error when a field
\* of the row is absent or created_at does not parse (SpecMapper).
C19_MalformedRejected ==
    (mapper.op = "toEntity" /\ ~WellFormed(mapper.row)) => mapper.err = MalformedInputError

C21_PayloadTwoFields ==
    mapper.op = "userEntityToPayload" =>
        /\ DOMAIN mapper.ret = {"userId", "email"}
        /\ mapper.ret.userId = mapper.arg.id
        /\ mapper.ret.email = mapper.arg.email

C21_Witness ==
    /\ mapper.op = "userEntityToPayload"
    /\ mapper.arg = toEntity(DbRow)
    /\ mapper.ret = [userId |-> "usr_42", email |-> "alice@example.com"]

\* C22: a batch conversion of a sequence of rows gives as many DTOs as rows,
\* the i-th DTO being toDto(toEntity(i-th row)) (SpecMapper).
C22_BatchPointwise ==
    mapper.op = "batch" =>
        /\ Len(mapper.ret) = Len(mapper.rows)
        /\ \A i \in 1..Len(mapper.rows) :
               mapper.ret[i] = toDto(toEntity(mapper.rows[i]), mapper.tz)

C22_Witness ==
    /\ mapper.op = "batch"
    /\ mapper.tz = 0
    /\ Len(mapper.rows) = 2
    /\ mapper.rows[1] = DbRow
    /\ mapper.rows[2]["created_at"] = "not-a-date"
    /\ mapper.ret[1].memberSince = "June 15, 2024"
    /\ mapper.ret[2].memberSince = "Invalid Date"

\* C23: the mappers are stateless and pure: the instances never hold anything,
\* a conversion repeated after any other conversions returns what it returned
\* before, and every conversion returns what an unused mapper would return
\* (SpecPure).
C23_MappersPure ==
    pure.op = "call" =>
        /\ pure.userMapper = NoFields
        /\ pure.payloadMapper = NoFields
        /\ (pure.before.method = pure.method /\ pure.before.arg = pure.arg)
               => pure.ret = pure.before.ret
        /\ pure.ret = invoke(NoFields, pure.method, pure.arg, pure.tz).ret

C23_Witness ==
    /\ pure.op = "call"
    /\ pure.method = "toEntity"
    /\ pure.before.method = "toEntity"
    /\ pure.before.arg = pure.arg
    /\ pure.others
    /\ pure.ret = pure.before.ret
    /\ pure.arg = DbRow

\* C24: build() returns a pizza with exactly the ingredients added since the
\* previous build (or construction), in call order, and resets the builder: a
\* build() right after a build() returns a pizza without ingredients
\* (SpecBuilder).
C24_BuildReturnsAddedAndResets ==
    builder.op = "build" =>
        /\ builder.heap[builder.ret] = builder.wanted
        /\ builder.heap[builder.pizza] = <<>>
        /\ builder.prev = "build" => builder.heap[builder.ret] = <<>>

C24_Witness ==
    /\ builder.op = "build"
    /\ builder.prev = "build"
    /\ builder.ret = 2
    /\ builder.heap[2] = <<>>
    /\ builder.heap[1] = <<"Thin Dough", "Mozzarella Cheese", "Spicy Pepperoni">>

\* C29: a pizza returned by build() keeps its ingredient list whatever is
\* called on the builder afterwards (SpecBuilder).
C29_BuiltPizzaUntouched ==
    (builder.op # "new" /\ builder.kept.ref # NullRef) =>
        builder.heap[builder.kept.ref] = builder.kept.ingredients

C29_Witness ==
    /\ builder.op # "new"
    /\ builder.kept.ref # NullRef
    /\ builder.kept.ingredients = <<"Thin Dough">>
    /\ builder.after = {"add", "build"}
    /\ builder.heap[builder.kept.ref] = <<"Thin Dough">>

\* C25: processOrder(amount) invokes pay(amount) once, on the strategy handed
\* over last (to the constructor or to the latest setPaymentMethod), and on no
\* other strategy (SpecCheckout).
C25_PaysCurrentStrategy ==
    checkout.op = "processOrder" =>
        /\ Len(checkout.pays) = 1
        /\ checkout.pays[1].on = checkout.latest
        /\ checkout.console = <<pay(checkout.objects[checkout.latest], checkout.pays[1].amount)>>

C25_Witness ==
    /\ checkout.op = "processOrder"
    /\ checkout.objects = <<"CreditCardPayment", "CryptoPayment">>
    /\ checkout.latest = 2
    /\ checkout.pays = <<[on |-> 2, amount |-> 250]>>
    /\ checkout.console = <<"Sending $250 via Bitcoin network">>

\* C26: each repository operation takes effect in one step: with calls issued
\* by several callers before any has its result, the store is the one the same
\* calls give when made one after another, every call returns what it returns
\* in that run, concurrent creates return different identifiers and no entry
\* is lost (SpecAtomic).
C26_CallsAtomic ==
    /\ Store = [users |-> twin.users, nextId |-> twin.nextId]
    /\ \A p \in Procs :
           calls[p].pc = "settled" =>
               calls[p].ret = calls[p].serial.ret /\ calls[p].err = calls[p].serial.err
    /\ \A i, j \in 1..Len(issued) : issued[i] = issued[j] => i = j
    /\ \A i \in 1..Len(issued) : issued[i] \notin removed => MapHas(users, issued[i])

C26_Witness ==
    /\ \A p \in Procs : calls[p].pc = "settled" /\ calls[p].op = "create"
    /\ calls[1].ret.id = <<2>>
    /\ calls[2].ret.id = <<1>>
    /\ MapKeys(users) = {<<1>>, <<2>>}

C28_UpdateKeepsOrder ==
    [][last'.op = "update" =>
        LET before == findAll(Store).ret
            S2 == [users |-> users', nextId |-> nextId']
            after == findAll(S2).ret
        IN  /\ Len(after) = Len(before)
            /\ \A i \in 1..Len(before) : after[i].id = before[i].id
            /\ \A email \in Emails :
                   LET hits == { i \in 1..Len(after) : after[i].email = email }
                       found == findByEmail(S2, email).ret
                   IN  IF hits = {} THEN found = Null
                       ELSE found.id = before[CHOOSE i \in hits : \A j \in hits : i <= j].id]_vars

C28_Witness ==
    /\ last.op = "update"
    /\ last.err = NoError
    /\ Len(users) = 2
    /\ last.arg.id = users[1].key
    /\ users[1].val = last.ret
    /\ users[1].val.email = users[2].val.email
    /\ "email" \in DOMAIN last.arg.data

\* C30: every entry is stored under its own identifier: whenever findById(id)
\* returns a value, the value's id is id, after any creates, updates with name
\* and email patches and deletes.
C30_StoredUnderOwnId ==
    /\ \A i \in 1..Len(users) : users[i].val.id = users[i].key
    /\ \A id \in IdInputs(MaxCreates) :
           LET found == findById(Store, id).ret
           IN  MapHas(users, id) => found.id = id

C30_Witness ==
    /\ last.op = "update"
    /\ last.err = NoError
    /\ removed = {<<1>>}
    /\ MapKeys(users) = {<<2>>}
    /\ DOMAIN last.arg.data = {"name", "email"}
    /\ findById(Store, <<2>>).ret.id = <<2>>
    /\ findById(Store, <<2>>).ret.name = last.arg.data.name

====
